---- MODULE Spec2Model ----
(***************************************************************************)
(* tinypng-cli (src/tinypng_cli.py): the command line front end `main`,    *)
(* the preset resolution of ImageCompressor.__init__, one compression job  *)
(* (ImageCompressor.compress_image with the three encoders) and the batch  *)
(* loop (ImageCompressor.batch_compress), over a small file system.        *)
(*                                                                         *)
(* The image codec (Pillow), piexif, the terminal and the file system are  *)
(* the environment: each call into them is a choice among the outcomes the *)
(* call can have (success, or the exception it raises).                    *)
(***************************************************************************)
EXTENDS Integers, Sequences, FiniteSets, TLC

VARIABLES
    args,        \* the command line, fixed by Init
    fs,          \* regular files: path -> [size, writer, partial]
    dirs,        \* the directories that exist
    pc,          \* the statement the (single) main thread is at
    compressor,  \* the ImageCompressor built by main, NoValue before
    batch,       \* locals of batch_compress
    job,         \* locals of the running compress_image call
    hist,        \* one record per compress_image call started, in call order
    spinners,    \* LoadingSpinner threads alive
    exitCode,    \* -1 while the process runs
    error,       \* the uncaught exception that ended the process, or "none"
    report,      \* the final batch tally once printed, else NoValue
    previous     \* what the run before this one found and left, else NoValue

vars == <<args, fs, dirs, pc, compressor, batch, job, hist, spinners, exitCode, error, report, previous>>

\* Python's None, for a record-valued and for a path-valued name
NoValue == [none |-> TRUE]
NoPath == <<>>

-----------------------------------------------------------------------------
(* Bounds of the model.                                                    *)

\* how many entries the input tree holds at most
MaxFiles == 2

-----------------------------------------------------------------------------
(* Python strings that the code lower-cases or tests for a leading dot:    *)
(* [dot, text, caps] stands for ("." if dot) + text, written in capitals   *)
(* when caps.                                                              *)

Str(dot, text, caps) == [dot |-> dot, text |-> text, caps |-> caps]

\* str.lower()
Lower(s) == [s EXCEPT !.caps = FALSE]

\* s.startswith('.')
StartsWithDot(s) == s.dot

\* f'.{s}'
PrependDot(s) == [s EXCEPT !.dot = TRUE]

EmptyStr == Str(FALSE, "", FALSE)

-----------------------------------------------------------------------------
(* pathlib.Path: a sequence of components, each [stem, ext]; the stem is a *)
(* sequence of text pieces so that a prefix can be put in front of it.     *)

Comp(stem, ext) == [stem |-> <<stem>>, ext |-> ext]

DirComp(name) == Comp(name, EmptyStr)

\* Path.parent
Parent(p) == SubSeq(p, 1, Len(p) - 1)

\* Path.name
Name(p) == p[Len(p)]

\* Path.suffix
Suffix(p) == Name(p).ext

\* Path.with_suffix(s)
WithSuffix(p, s) == [p EXCEPT ![Len(p)].ext = s]

\* base / rel
Join(base, rel) == base \o rel

\* whether base is a proper ancestor of p
IsUnder(p, base) ==
    /\ Len(base) < Len(p)
    /\ SubSeq(p, 1, Len(base)) = base

\* Path.relative_to(base)
RelativeTo(p, base) == SubSeq(p, Len(base) + 1, Len(p))

\* input_path.parent / f"compressed_{input_path.name}"
CompressedSibling(p) ==
    Join(Parent(p), <<[Name(p) EXCEPT !.stem = <<"compressed_">> \o @]>>)

\* the directories mkdir(parents=True) makes sure of: p and its ancestors
Ancestors(p) == {SubSeq(p, 1, k) : k \in 1..Len(p)}

-----------------------------------------------------------------------------
(* The paths of the model: in/a.png, in/notes.txt, in/c.bmp, in/sub/y.JPG,  *)
(* in/compressed/a.png, the directory in/album.jpg, and out/.              *)

InDir == <<DirComp("in")>>
OutDir == <<DirComp("out")>>

FileA == Join(InDir, <<Comp("a", Str(TRUE, "png", FALSE))>>)
FileNotes == Join(InDir, <<Comp("notes", Str(TRUE, "txt", FALSE))>>)
FileC == Join(InDir, <<Comp("c", Str(TRUE, "bmp", FALSE))>>)
FileY == Join(InDir, <<DirComp("sub"), Comp("y", Str(TRUE, "jpg", TRUE))>>)
FileOld == Join(InDir, <<DirComp("compressed"), Comp("a", Str(TRUE, "png", FALSE))>>)
DirAlbum == Join(InDir, <<Comp("album", Str(TRUE, "jpg", FALSE))>>)

\* what the input tree may hold: regular files, and one directory whose name
\* ends in an image extension
FileCandidates == {FileA, FileNotes, FileC, FileY, FileOld}
DirCandidates == {DirAlbum}

\* output files a previous run may have left
PreOutA == Join(OutDir, <<Name(FileA)>>)
PreOutC == Join(OutDir, <<Name(FileC)>>)
PreCandidates == {{}, {PreOutA}, {PreOutC}}

\* file sizes, in abstract units
InSizes == {2}
OutSizes == {1, 3}

-----------------------------------------------------------------------------
(* ImageCompressor.__init__: the preset resolution.                        *)

Max(a, b) == IF a >= b THEN a ELSE b
Min(a, b) == IF a <= b THEN a ELSE b

Presets == {"fast", "balanced", "quality"}

\* self.quality with the cap of preset quality forgotten
ResolveQualityUncapped(preset, quality) ==
    CASE preset = "fast" -> Max(70, quality - 10)
      [] preset = "balanced" -> quality
      [] preset = "quality" -> quality + 5
      [] OTHER -> quality

\* self.quality with preset fast only flooring the input quality
ResolveQualityFloorOnly(preset, quality) ==
    CASE preset = "fast" -> Max(70, quality)
      [] preset = "balanced" -> quality
      [] preset = "quality" -> Min(95, quality + 5)
      [] OTHER -> quality

\* self.quality
ResolveQuality(preset, quality) ==
    CASE preset = "fast" -> Max(70, quality - 10)
      [] preset = "balanced" -> quality
      [] preset = "quality" -> Min(95, quality + 5)
      [] OTHER -> quality

\* self.optimize
ResolveOptimize(preset, optimize) ==
    CASE preset = "fast" -> FALSE
      [] preset = "balanced" -> optimize
      [] preset = "quality" -> TRUE
      [] OTHER -> optimize

\* self.progressive
ResolveProgressive(preset, progressive) ==
    CASE preset = "fast" -> FALSE
      [] preset = "balanced" -> progressive
      [] preset = "quality" -> TRUE
      [] OTHER -> progressive

\* ImageCompressor(quality, optimize, progressive, preset)
NewCompressor(quality, optimize, progressive, preset) ==
    [preset |-> preset,
     quality |-> ResolveQuality(preset, quality),
     optimize |-> ResolveOptimize(preset, optimize),
     progressive |-> ResolveProgressive(preset, progressive)]

-----------------------------------------------------------------------------
(* The initial states: a command line and the file system it runs on.      *)

\* -f/--format values tried: absent, "PNG", "gif"
FormatArgs == {NoValue, Str(FALSE, "png", TRUE), Str(FALSE, "gif", FALSE)}

\* click.IntRange(1, 100)
QualityRange == 1..100

\* the trees: at most MaxFiles entries under the input directory
Trees == {t \in SUBSET (FileCandidates \cup DirCandidates) : Cardinality(t) <= MaxFiles}

NewFile(size) == [size |-> size, writer |-> 0, partial |-> FALSE]

\* the file system holding tree t and the earlier outputs pre
TreeFiles(t, pre) ==
    [p \in (t \cap FileCandidates) \cup pre |-> NewFile(CHOOSE n \in InSizes : TRUE)]

TreeDirs(t, pre) ==
    {InDir} \cup (t \cap DirCandidates)
    \cup UNION {Ancestors(Parent(p)) : p \in (t \cap FileCandidates) \cup pre}

BatchLocals0 ==
    [input_dir |-> NoPath, output_dir |-> NoPath, image_files |-> <<>>, i |-> 0,
     success_count |-> 0, total_original_size |-> 0, total_compressed_size |-> 0]

\* main(input_path, output_path, format, quality, output_dir, recursive,
\*      no_optimize, no_progressive, preset, overwrite); o holds the four quality options
ArgRecord(input, output, format, output_dir, recursive, overwrite, o) ==
    [input_path |-> input, output_path |-> output, format |-> format,
     quality |-> o[1], output_dir |-> output_dir, recursive |-> recursive,
     no_optimize |-> o[2], no_progressive |-> o[3],
     preset |-> o[4], overwrite |-> overwrite]

\* the default quality options: -q 85, optimize, progressive, --preset balanced
DefaultOptions == <<85, FALSE, FALSE, "balanced">>

\* directory invocations, with the default quality options
BatchArgs ==
    {ArgRecord(InDir, NoPath, f, d, r, o, DefaultOptions) :
        f \in FormatArgs, d \in {NoPath, OutDir}, r \in BOOLEAN, o \in BOOLEAN}

\* single file invocations, with the default quality options: no -o, -o on
\* another path, and -o a.png on a.png itself
SingleArgs ==
    {ArgRecord(x[1], x[2], f, NoPath, FALSE, o, DefaultOptions) :
        x \in ({FileA, FileC} \X {NoPath, PreOutA}) \cup {<<FileA, FileA>>},
        f \in FormatArgs, o \in BOOLEAN}

\* every quality option, on one directory and one file invocation
ResolveArgs ==
    {ArgRecord(x, NoPath, NoValue, NoPath, FALSE, FALSE, q) :
        x \in {InDir, FileA},
        q \in QualityRange \X BOOLEAN \X BOOLEAN \X Presets}

InitWith(argSet, trees, pres) ==
    /\ args \in argSet
    /\ \E t \in trees, pre \in pres :
          /\ fs = TreeFiles(t, pre)
          /\ dirs = TreeDirs(t, pre)
    /\ pc = "main"
    /\ compressor = NoValue
    /\ batch = BatchLocals0
    /\ job = NoValue
    /\ hist = <<>>
    /\ spinners = 0
    /\ exitCode = -1
    /\ error = "none"
    /\ report = NoValue
    /\ previous = NoValue

Init ==
    \/ InitWith(BatchArgs, Trees, PreCandidates)
    \/ InitWith(SingleArgs, {{}, {FileA}, {FileC}}, PreCandidates)

InitResolve == InitWith(ResolveArgs, {{FileA}}, {{}})

-----------------------------------------------------------------------------
(* main: the click front end.                                              *)

Exists(p) == p \in DOMAIN fs \/ p \in dirs
IsDir(p) == p \in dirs
IsFile(p) == p \in DOMAIN fs

\* the process ends with an exit status
Exit(code, err) ==
    /\ pc' = "exit"
    /\ exitCode' = code
    /\ error' = err

\* an exception nothing catches: the interpreter prints it and exits 1
Raise(err) == Exit(1, err)

\* main up to the construction of the compressor; click.Path(exists=True)
\* rejects a missing input with a usage error (exit status 2)
MainStart ==
    /\ pc = "main"
    /\ IF ~Exists(args.input_path)
       THEN Exit(2, "UsageError")
       ELSE /\ pc' = "construct"
            /\ UNCHANGED <<exitCode, error>>
    /\ UNCHANGED <<args, previous, fs, dirs, compressor, batch, job, hist, spinners, report>>

\* compressor = ImageCompressor(quality, not no_optimize, not no_progressive, preset)
Construct ==
    /\ pc = "construct"
    /\ compressor' = NewCompressor(args.quality, ~args.no_optimize,
                                   ~args.no_progressive, args.preset)
    /\ pc' = IF IsDir(args.input_path) THEN "batch" ELSE "single"
    /\ UNCHANGED <<args, previous, fs, dirs, batch, job, hist, spinners, exitCode, error, report>>

-----------------------------------------------------------------------------
(* The file system calls.                                                  *)

\* one listing order of a set of paths: the order the operating system
\* happens to return them in, fixed for a given set
RECURSIVE SetToSeq(_)
SetToSeq(S) ==
    IF S = {} THEN <<>>
    ELSE LET x == CHOOSE y \in S : TRUE
         IN <<x>> \o SetToSeq(S \ {x})

\* input_dir.glob('*') / input_dir.rglob('*') over files and directories
Glob(files, directories, dir, recursive) ==
    {p \in files \cup directories :
        IF recursive THEN IsUnder(p, dir) ELSE Len(p) > 0 /\ Parent(p) = dir}

Ext(text) == Str(TRUE, text, FALSE)

SupportedFormats == {Ext("jpg"), Ext("jpeg"), Ext("png"), Ext("webp"), Ext("bmp"), Ext("tiff")}

\* the filter without its is_file() test
IsImageFileAnyEntry(files, f) == Lower(Suffix(f)) \in SupportedFormats

\* f.is_file() and f.suffix.lower() in supported_formats
IsImageFile(files, f) == f \in files /\ Lower(Suffix(f)) \in SupportedFormats

\* the list image_files of batch_compress
Discover(files, directories, dir, recursive) ==
    SelectSeq(SetToSeq(Glob(files, directories, dir, recursive)),
              LAMBDA f : IsImageFile(files, f))

\* p.stat().st_size of an existing path (a directory has some size too)
StatSize(p) == IF p \in DOMAIN fs THEN fs[p].size ELSE 1

\* p.mkdir(parents=True, exist_ok=True) can fail only when it has to create
MkdirCanFail(p) == p \notin dirs

Mkdir(p) == dirs' = dirs \cup Ancestors(p)

-----------------------------------------------------------------------------
(* Calls of compress_image and their returns.                              *)

\* a dict with no key
EmptyInfo == [k \in {} |-> TRUE]

\* d.update(m)
Update(d, m) ==
    [k \in DOMAIN d \cup DOMAIN m |-> IF k \in DOMAIN m THEN m[k] ELSE d[k]]

\* the frame of compress_image(input_path, output_path, format, overwrite),
\* with the locals of the encoder it calls: info is img.info of the source,
\* metadata what was extracted from it, save_kwargs what img.save was given,
\* fault the step whose exception reached the encoder's except clause
NewJob(caller, input_path, output_path, format, overwrite) ==
    [caller |-> caller, input_path |-> input_path, output_path |-> output_path,
     format |-> format, overwrite |-> overwrite, source |-> "none",
     encoder |-> "none", target |-> NoPath, meta |-> "none", success |-> FALSE,
     ret |-> FALSE, original_size |-> 0, compressed_size |-> 0,
     prompted |-> FALSE, answer |-> NoValue,
     info |-> EmptyInfo, metadata |-> EmptyInfo, save_kwargs |-> EmptyInfo,
     fault |-> "none"]

\* the call: a new frame, and its entry in the call history
Call(caller, index, input_path, output_path, format, overwrite) ==
    /\ job' = NewJob(caller, input_path, output_path, format, overwrite)
    /\ hist' = Append(hist, [index |-> index, input |-> input_path,
                             output |-> output_path, outcome |-> "running",
                             before |-> DOMAIN fs, prompted |-> FALSE,
                             original_size |-> 0, compressed_size |-> 0])
    /\ pc' = "ci_check"
    /\ UNCHANGED <<exitCode, error>>

\* compress_image goes on to the statement at label with locals j
Goto(label, j) ==
    /\ pc' = label
    /\ job' = j
    /\ UNCHANGED <<hist, exitCode, error>>

\* the history entry of the running call, closed with its outcome and the
\* sizes it measured
Closed(j, outcome) ==
    [hist EXCEPT ![Len(hist)] =
        [@ EXCEPT !.outcome = outcome, !.prompted = j.prompted,
                  !.original_size = j.original_size,
                  !.compressed_size = j.compressed_size]]

\* compress_image returns value to its caller
ReturnTo(j, value, outcome) ==
    /\ job' = [j EXCEPT !.ret = value]
    /\ hist' = Closed(j, outcome)
    /\ pc' = IF j.caller = "batch" THEN "batch_acc" ELSE "single_ret"
    /\ UNCHANGED <<exitCode, error>>

\* an exception leaves compress_image; neither batch_compress nor main has
\* an except clause, so it ends the process
JobRaise(j, err) ==
    /\ job' = j
    /\ hist' = Closed(j, "raised")
    /\ Raise(err)

-----------------------------------------------------------------------------
(* batch_compress.                                                         *)

\* output_dir, as main (lines 482-483) and batch_compress (381-384) default it
DefaultOutputDir(input_dir) == Join(input_dir, <<DirComp("compressed")>>)

ResolveOutputDir(input_dir, output_dir) ==
    IF output_dir = NoPath THEN DefaultOutputDir(input_dir) ELSE output_dir

\* rel_path and output_file of the loop body
OutputFile(input_dir, output_dir, recursive, image_file) ==
    Join(output_dir,
         IF recursive THEN RelativeTo(image_file, input_dir) ELSE <<Name(image_file)>>)

\* batch_compress up to the loop: validation, output directory, discovery
BatchStart ==
    /\ pc = "batch"
    /\ LET input_dir == args.input_path
           output_dir == ResolveOutputDir(input_dir, args.output_dir)
       IN IF ~IsDir(input_dir)
          THEN /\ Exit(0, "none")
               /\ UNCHANGED <<dirs, batch>>
          ELSE \/ /\ MkdirCanFail(output_dir)
                  /\ Raise("OSError")
                  /\ UNCHANGED <<dirs, batch>>
               \/ /\ Mkdir(output_dir)
                  /\ LET image_files == Discover(DOMAIN fs, dirs', input_dir, args.recursive)
                     IN /\ batch' = [BatchLocals0 EXCEPT !.input_dir = input_dir,
                                                         !.output_dir = output_dir,
                                                         !.image_files = image_files,
                                                         !.i = 1]
                        /\ IF image_files = <<>>
                           THEN Exit(0, "none")
                           ELSE /\ pc' = "loop"
                                /\ UNCHANGED <<exitCode, error>>
    /\ UNCHANGED <<args, previous, fs, compressor, job, hist, spinners, report>>

\* the head of the for loop and the body up to the call of compress_image
\* (i counts from 1 here, enumerate from 0)
BatchLoop ==
    /\ pc = "loop"
    /\ IF batch.i > Len(batch.image_files)
       THEN /\ pc' = "summary"
            /\ UNCHANGED <<dirs, job, hist, exitCode, error>>
       ELSE LET image_file == batch.image_files[batch.i]
                output_file == OutputFile(batch.input_dir, batch.output_dir,
                                          args.recursive, image_file)
            IN \/ /\ MkdirCanFail(Parent(output_file))
                  /\ Raise("OSError")
                  /\ UNCHANGED <<dirs, job, hist>>
               \/ /\ Mkdir(Parent(output_file))
                  /\ Call("batch", batch.i, image_file, output_file,
                          args.format, args.overwrite)
    /\ UNCHANGED <<args, previous, fs, compressor, batch, spinners, report>>

\* the accumulators counting every job, whatever it returned
AccumulateEveryJob(b, ret, original, compressed) ==
    [b EXCEPT !.success_count = @ + 1,
              !.total_original_size = @ + original,
              !.total_compressed_size = @ + compressed,
              !.i = @ + 1]

\* lines 430-433, and the loop going on to the next file
Accumulate(b, ret, original, compressed) ==
    IF ret
    THEN [b EXCEPT !.success_count = @ + 1,
                   !.total_original_size = @ + original,
                   !.total_compressed_size = @ + compressed,
                   !.i = @ + 1]
    ELSE [b EXCEPT !.i = @ + 1]

\* the body after compress_image returned: the three accumulators; the two
\* stat calls are made for a job that returned True only
BatchAcc ==
    /\ pc = "batch_acc"
    /\ LET image_file == batch.image_files[batch.i]
           output_file == OutputFile(batch.input_dir, batch.output_dir,
                                     args.recursive, image_file)
       IN IF job.ret /\ (~Exists(output_file) \/ ~Exists(image_file))
          THEN /\ Raise("FileNotFoundError")
               /\ UNCHANGED batch
          ELSE /\ batch' = Accumulate(batch, job.ret,
                                      IF job.ret THEN StatSize(image_file) ELSE 0,
                                      IF job.ret THEN StatSize(output_file) ELSE 0)
               /\ pc' = "loop"
               /\ UNCHANGED <<exitCode, error>>
    /\ job' = NoValue
    /\ UNCHANGED <<args, previous, fs, dirs, compressor, hist, spinners, report>>

\* the summary prints the ratio for every count
ComputesRatioAlways(success_count) == TRUE

\* if success_count > 0: (line 438)
ComputesRatio(success_count) == success_count > 0

\* the summary after the loop (lines 435-441): the tally, and the ratio when
\* computed, a division by total_original_size; batch_compress returns and
\* main ends
BatchSummary ==
    /\ pc = "summary"
    /\ IF ComputesRatio(batch.success_count)
       THEN IF batch.total_original_size = 0
            THEN /\ Raise("ZeroDivisionError")
                 /\ report' = [succeeded |-> batch.success_count,
                               total |-> Len(batch.image_files), ratio |-> FALSE]
            ELSE /\ Exit(0, "none")
                 /\ report' = [succeeded |-> batch.success_count,
                               total |-> Len(batch.image_files), ratio |-> TRUE]
       ELSE /\ Exit(0, "none")
            /\ report' = [succeeded |-> batch.success_count,
                          total |-> Len(batch.image_files), ratio |-> FALSE]
    /\ UNCHANGED <<args, previous, fs, dirs, compressor, batch, job, hist, spinners>>

-----------------------------------------------------------------------------
(* main in single file mode.                                               *)

\* success = compressor.compress_image(input_path, output_path, format, overwrite)
SingleStart ==
    /\ pc = "single"
    /\ IF ~IsFile(args.input_path)
       THEN /\ Exit(1, "none")
            /\ UNCHANGED <<job, hist>>
       ELSE Call("single", 1, args.input_path, args.output_path, args.format,
                 args.overwrite)
    /\ UNCHANGED <<args, previous, fs, dirs, compressor, batch, spinners, report>>

\* if not success: sys.exit(1)
SingleRet ==
    /\ pc = "single_ret"
    /\ Exit(IF job.ret THEN 0 ELSE 1, "none")
    /\ UNCHANGED <<args, previous, fs, dirs, compressor, batch, job, hist, spinners, report>>

-----------------------------------------------------------------------------
(* compress_image.                                                         *)

\* lines typed at the overwrite prompt: "y", "Y", "n", "", "yes"
Answers ==
    {Str(FALSE, "y", FALSE), Str(FALSE, "y", TRUE), Str(FALSE, "n", FALSE),
     EmptyStr, Str(FALSE, "yes", FALSE)}

\* input("").lower() != 'y' is false: the answer that lets the job go on
Confirms(answer) == Lower(answer) = Str(FALSE, "y", FALSE)

\* the input check, the output path and the overwrite prompt (lines 283-301)
CiCheck ==
    /\ pc = "ci_check"
    /\ IF ~Exists(job.input_path)
       THEN ReturnTo(job, FALSE, "failed")
       ELSE LET output_path == IF job.output_path = NoPath
                               THEN CompressedSibling(job.input_path)
                               ELSE job.output_path
                j == [job EXCEPT !.output_path = output_path]
            IN IF Exists(output_path) /\ ~job.overwrite
               THEN \/ \E answer \in Answers :
                         LET k == [j EXCEPT !.prompted = TRUE, !.answer = answer]
                         IN IF Confirms(answer)
                            THEN Goto("ci_format", k)
                            ELSE ReturnTo(k, FALSE, "cancelled")
                    \/ JobRaise([j EXCEPT !.prompted = TRUE], "EOFError")
               ELSE Goto("ci_format", j)
    /\ UNCHANGED <<args, previous, fs, dirs, compressor, batch, spinners, report>>

\* the format string taken from the extension whatever the flag
FormatStringFromExtension(format, input_path) == Lower(Suffix(input_path))

\* the format string compress_image dispatches on (lines 304-309)
FormatString(format, input_path) ==
    IF format = NoValue
    THEN Lower(Suffix(input_path))
    ELSE LET f == Lower(format)
         IN IF StartsWithDot(f) THEN f ELSE PrependDot(f)

\* where that string came from
FormatSource(format) == IF format = NoValue THEN "extension" ELSE "flag"

\* the format, and the parent directory of the output (lines 303-312)
CiFormat ==
    /\ pc = "ci_format"
    /\ LET j == [job EXCEPT !.format = FormatString(job.format, job.input_path),
                            !.source = FormatSource(job.format)]
       IN \/ /\ MkdirCanFail(Parent(job.output_path))
             /\ JobRaise(j, "OSError")
             /\ UNCHANGED dirs
          \/ /\ Mkdir(Parent(job.output_path))
             /\ Goto("ci_dispatch", j)
    /\ UNCHANGED <<args, previous, fs, compressor, batch, spinners, report>>

\* the encoder the if/elif chain of lines 316-321 picks for a format string
EncoderFor(format) ==
    CASE format \in {Ext("jpg"), Ext("jpeg")} -> "JPEG"
      [] format = Ext("png") -> "PNG"
      [] format = Ext("webp") -> "WEBP"
      [] OTHER -> "none"

\* img.format of the opened input, or "unreadable" when Image.open raises
Headers == {"JPEG", "PNG", "WEBP", "BMP", "unreadable"}

\* the suffix the probe branch gives the output (lines 328, 330, 332)
ProbeSuffix(header) ==
    CASE header = "JPEG" -> Ext("jpg")
      [] header = "PNG" -> Ext("png")
      [] header = "WEBP" -> Ext("webp")

\* the dispatch on the format string, with the header probe (lines 315-338)
CiDispatch ==
    /\ pc = "ci_dispatch"
    /\ IF EncoderFor(job.format) # "none"
       THEN Goto("enc_start", [job EXCEPT !.encoder = EncoderFor(job.format),
                                           !.target = job.output_path])
       ELSE \E header \in Headers :
               IF header \in {"JPEG", "PNG", "WEBP"}
               THEN Goto("enc_start",
                         [job EXCEPT !.encoder = header, !.source = "probe",
                                     !.target = WithSuffix(job.output_path,
                                                           ProbeSuffix(header))])
               ELSE ReturnTo([job EXCEPT !.source = "probe"], FALSE, "failed")
    /\ UNCHANGED <<args, previous, fs, dirs, compressor, batch, spinners, report>>

-----------------------------------------------------------------------------
(* compress_jpeg, compress_png, compress_webp.                             *)

\* spinner = LoadingSpinner(...); spinner.start()
EncStart ==
    /\ pc = "enc_start"
    /\ spinners' = spinners + 1
    /\ Goto("enc_open", job)
    /\ UNCHANGED <<args, previous, fs, dirs, compressor, batch, report>>

\* img.info of a source image: nothing, the marker of a progressive JPEG
\* (Pillow sets info['progressive'] = 1, a true value), or an EXIF block
Infos == {EmptyInfo, [k \in {"progressive"} |-> TRUE], [k \in {"exif"} |-> TRUE]}

\* the encoder's frame ends: return success, fault being the step that raised
Leave(j, success, fault) ==
    [j EXCEPT !.success = success, !.fault = fault, !.info = EmptyInfo,
              !.metadata = EmptyInfo, !.save_kwargs = EmptyInfo]

\* Image.open, the metadata extraction and the mode conversion. An exception
\* of Image.open or of the conversion goes to the encoder's except clause,
\* which returns False without stopping the spinner. _extract_metadata
\* (JPEG, PNG) catches what its loop raises and returns what it has so far;
\* compress_webp takes a plain copy of the dict img.info. A file a failed
\* save left empty cannot be opened.
EncOpen ==
    /\ pc = "enc_open"
    /\ \/ /\ ~fs[job.input_path].partial
          /\ \E info \in Infos :
                \/ Goto("enc_save", [job EXCEPT !.info = info, !.metadata = info])
                \/ /\ job.encoder # "WEBP"
                   /\ Goto("enc_save", [job EXCEPT !.info = info])
       \/ Goto("ci_result", Leave(job, FALSE, "open"))
    /\ UNCHANGED <<args, previous, fs, dirs, compressor, batch, spinners, report>>

\* the file img.save leaves at target when it wrote all of it
Written(n) == [size |-> n, writer |-> Len(hist), partial |-> FALSE]

\* the file a failed img.save leaves when it had opened target for writing
Truncated == [size |-> 0, writer |-> Len(hist), partial |-> TRUE]

\* the file system with file f at path p
WithFile(p, f) == [q \in DOMAIN fs \cup {p} |-> IF q = p THEN f ELSE fs[q]]

\* the file systems a failed img.save(target) can leave: it failed before
\* opening target (nothing changes); or after, and then an existing file
\* stays truncated, and a new one is removed or stays, by the Pillow version
AfterFailedSave(target) ==
    {fs} \cup (IF target \in dirs THEN {} ELSE {WithFile(target, Truncated)})

\* the same with a Pillow that always removes the file it created
AfterFailedSaveRemoving(target) ==
    {fs} \cup (IF target \in DOMAIN fs THEN {WithFile(target, Truncated)} ELSE {})

\* save_kwargs of compress_jpeg (lines 179-186)
JpegSaveKwargs(c, metadata) ==
    Update([quality |-> c.quality, optimize |-> c.optimize,
            progressive |-> c.progressive], metadata)

\* the metadata keys compress_webp passes on (line 256)
WebpKeys == {"exif", "iptc", "xmp", "icc_profile"}

\* save_kwargs of compress_webp (lines 249-258)
WebpSaveKwargs(c, info) ==
    Update([quality |-> c.quality, method |-> 6, lossless |-> FALSE],
           [k \in DOMAIN info \cap WebpKeys |-> info[k]])

\* the keyword arguments of img.save in _save_png_with_metadata (line 145)
PngSaveKwargs(c, metadata) ==
    [pnginfo |-> metadata, optimize |-> c.optimize, compress_level |-> 0]

SaveKwargs(encoder, c, j) ==
    CASE encoder = "JPEG" -> JpegSaveKwargs(c, j.metadata)
      [] encoder = "WEBP" -> WebpSaveKwargs(c, j.info)
      [] OTHER -> PngSaveKwargs(c, j.metadata)

\* the metadata handed to the save call: what embedding can fail on
Embedded(encoder, j) ==
    IF encoder = "WEBP" THEN DOMAIN j.info \cap WebpKeys ELSE DOMAIN j.metadata

\* the steps a failing save can have failed in: the pixel encode or the write,
\* or, when metadata was handed over, embedding it (PngInfo.add_text, or
\* img.save rejecting a value)
SaveFaults(encoder, j) ==
    {"encode"} \cup (IF Embedded(encoder, j) = {} THEN {} ELSE {"metadata"})

\* after img.save: the PNG encoder stops the spinner and returns, the JPEG
\* and WebP encoders go on to _preserve_metadata; failed is what a failing
\* save can leave
EncSaveWith(failed) ==
    /\ pc = "enc_save"
    /\ \/ /\ job.target \notin dirs
          /\ \E n \in OutSizes : fs' = WithFile(job.target, Written(n))
          /\ IF job.encoder = "PNG"
             THEN /\ spinners' = spinners - 1
                  /\ Goto("ci_result", Leave(job, TRUE, "none"))
             ELSE /\ spinners' = spinners
                  /\ Goto("enc_meta",
                          [job EXCEPT !.save_kwargs = SaveKwargs(job.encoder, compressor, job)])
       \/ /\ fs' \in failed
          /\ spinners' = IF job.encoder = "PNG" THEN spinners - 1 ELSE spinners
          /\ \E fault \in SaveFaults(job.encoder, job) :
                Goto("ci_result", Leave(job, FALSE, fault))
    /\ UNCHANGED <<args, previous, dirs, compressor, batch, report>>

EncSave == EncSaveWith(AfterFailedSave(job.target))

EncSaveRemoving == EncSaveWith(AfterFailedSaveRemoving(job.target))

\* what _preserve_metadata did: the source had no EXIF, piexif.insert wrote
\* it, or a step raised and was caught (lines 105-121)
MetaOutcomes == {"no_exif", "inserted", "failed"}

\* the outcomes it can have on a source with the given img.info
MetaOutcomesFor(info) ==
    {"failed"} \cup (IF "exif" \in DOMAIN info THEN {"inserted"} ELSE {"no_exif"})

\* _preserve_metadata, spinner.stop(True), return True
EncMeta ==
    /\ pc = "enc_meta"
    /\ \E m \in MetaOutcomes \cap MetaOutcomesFor(job.info) :
          Goto("ci_result", [Leave(job, TRUE, "none") EXCEPT !.meta = m])
    /\ spinners' = spinners - 1
    /\ UNCHANGED <<args, previous, fs, dirs, compressor, batch, report>>

\* the size measurement and the return value (lines 340-359)
CiResult ==
    /\ pc = "ci_result"
    /\ IF job.success
       THEN IF ~Exists(job.input_path) \/ ~Exists(job.output_path)
            THEN JobRaise(job, "FileNotFoundError")
            ELSE LET original_size == StatSize(job.input_path)
                     compressed_size == StatSize(job.output_path)
                 IN IF original_size = 0
                    THEN JobRaise(job, "ZeroDivisionError")
                    ELSE ReturnTo([job EXCEPT !.original_size = original_size,
                                              !.compressed_size = compressed_size],
                                  TRUE, "success")
       ELSE ReturnTo(job, FALSE, "failed")
    /\ UNCHANGED <<args, previous, fs, dirs, compressor, batch, spinners, report>>

-----------------------------------------------------------------------------
(* The program.                                                            *)

\* the steps of every invocation, but img.save
JobSteps ==
    \/ MainStart
    \/ Construct
    \/ CiCheck
    \/ CiFormat
    \/ CiDispatch
    \/ EncStart
    \/ EncOpen
    \/ EncMeta
    \/ CiResult

\* the steps of a directory invocation, but img.save
BatchSteps ==
    \/ JobSteps
    \/ BatchStart
    \/ BatchLoop
    \/ BatchAcc
    \/ BatchSummary

\* the steps of a single file invocation, but img.save
SingleSteps ==
    \/ JobSteps
    \/ SingleStart
    \/ SingleRet

\* every step but img.save
OtherSteps == BatchSteps \/ SingleStart \/ SingleRet

Next == OtherSteps \/ EncSave

Spec == Init /\ [][Next]_vars

\* the program run to its end: the interpreter goes on while a step is there
\* to take (the spinner threads are daemons and hold nothing up)
SpecFair == Spec /\ WF_vars(Next)

\* the program on a Pillow that removes the file a failed save created
NextRemoving == OtherSteps \/ EncSaveRemoving

SpecRemoving == Init /\ [][NextRemoving]_vars

\* the preset resolution alone, over every quality option
NextResolve == MainStart \/ Construct

SpecResolve == InitResolve /\ [][NextResolve]_vars

\* single file invocations on y.JPG with every preset and flag, at -q 85
OptionArgs ==
    {ArgRecord(FileY, NoPath, NoValue, NoPath, FALSE, o, q) :
        o \in BOOLEAN, q \in {85} \X BOOLEAN \X BOOLEAN \X Presets}

InitOptions == InitWith(OptionArgs, {{FileY}}, {{}})

NextOptions == SingleSteps \/ EncSave

\* one JPEG job under every preset and flag
SpecOptions == InitOptions /\ [][NextOptions]_vars

\* the same command line given again once a batch has printed its tally:
\* a new process on the files the first one left
Rerun ==
    /\ pc = "exit"
    /\ previous = NoValue
    /\ report # NoValue
    /\ previous' = [image_files |-> batch.image_files, files |-> DOMAIN fs,
                    succeeded |-> report.succeeded]
    /\ fs' = [p \in DOMAIN fs |-> [fs[p] EXCEPT !.writer = 0]]
    /\ pc' = "main"
    /\ compressor' = NoValue
    /\ batch' = BatchLocals0
    /\ job' = NoValue
    /\ hist' = <<>>
    /\ spinners' = 0
    /\ exitCode' = -1
    /\ error' = "none"
    /\ report' = NoValue
    /\ UNCHANGED <<args, dirs>>

\* directory invocations with --overwrite and no -f
OverwriteArgs == {a \in BatchArgs : a.overwrite /\ a.format = NoValue}

\* the trees without a subdirectory, on a file system with no earlier output
InitTwice == InitWith(OverwriteArgs, {t \in Trees : \A p \in t : Len(p) = 2}, {{}})

NextTwice == BatchSteps \/ EncSaveRemoving \/ Rerun

\* a batch with --overwrite, run once or twice, on a Pillow that removes the
\* file a failed save created
SpecTwice == InitTwice /\ [][NextTwice]_vars

-----------------------------------------------------------------------------
(* Notions the properties share.                                           *)

BatchMode == IsDir(args.input_path)

\* the files that existed when the first job started
InitialFiles == IF hist = <<>> THEN DOMAIN fs ELSE hist[1].before

\* batch_compress has built its list and entered the loop
Discovered == batch.i >= 1 /\ batch.image_files # <<>>

\* the calls of compress_image that have ended with one of the outcomes
Ended(outcomes) == {k \in 1..Len(hist) : hist[k].outcome \in outcomes}

\* call k left a file it wrote at a path that held none before
LeftNewFile(k) == \E p \in DOMAIN fs : fs[p].writer = k /\ p \notin hist[k].before

\* the calls run one at a time, in the order of image_files, each file once
JobsRunInOrderWithoutOverlap ==
    /\ \A k \in 1..Len(hist) :
          /\ hist[k].index = k
          /\ BatchMode => k <= Len(batch.image_files) /\ hist[k].input = batch.image_files[k]
          /\ k < Len(hist) => hist[k].outcome # "running"
    /\ BatchMode /\ Discovered /\ pc # "exit" =>
          Len(hist) \in {batch.i - 1, batch.i}

-----------------------------------------------------------------------------
(* C1..C10.                                                                *)

\* C1: in a batch that found files, no failure of a job ends the batch:
\* when the process has ended, no exception has left batch_compress and
\* every discovered file has had its call of compress_image.
C1_JobFailureNeverAbortsBatch ==
    (pc = "exit" /\ BatchMode /\ Discovered) =>
        /\ error = "none"
        /\ Len(hist) = Len(batch.image_files)

\* C2: a call of compress_image that ended in failure (it returned False
\* after an error, or raised) leaves no file it wrote at a path that held
\* no file before the call.
C2_FailedJobLeavesNoOutput ==
    \A k \in Ended({"failed", "raised"}) : ~LeftNewFile(k)

\* C3: a job whose overwrite prompt was answered with anything but y/Y
\* writes nothing, and is a skip that is no failure: in single file mode the
\* process exits 0, and in batch mode the tally's failures
\* (total - succeeded) are the jobs that failed, the skipped ones not among them.
C3_DeclinedOverwriteIsNotAFailure ==
    \A k \in Ended({"cancelled"}) :
        /\ \A p \in DOMAIN fs : fs[p].writer # k
        /\ (~BatchMode /\ pc = "exit") => exitCode = 0
        /\ (BatchMode /\ report # NoValue) =>
              report.total - report.succeeded = Cardinality(Ended({"failed"}))

\* C4: batch_compress runs exactly one job per discovered file, in
\* discovery order and one at a time: the calls so far are those of the first
\* files of image_files, only the last may still run, and when the process
\* has ended every discovered file has had its job.
C4_OneJobPerFileInOrder ==
    BatchMode /\ Discovered =>
        /\ JobsRunInOrderWithoutOverlap
        /\ pc = "exit" => Len(hist) = Len(batch.image_files)

\* the extensions C5 lists, compared without regard to case
ListedExtensions == {"jpg", "jpeg", "png", "webp", "bmp", "tiff"}

\* the regular files C5 says are processed: children of the input directory,
\* or all descendants when recursive, with a listed extension
ExpectedImageFiles ==
    {p \in InitialFiles :
        /\ Len(p) > 1
        /\ IF args.recursive
           THEN SubSeq(p, 1, 1) = args.input_path
           ELSE Len(p) = 2 /\ p[1] = args.input_path[1]
        /\ p[Len(p)].ext.dot
        /\ p[Len(p)].ext.text \in ListedExtensions}

\* C5: the files batch_compress works on are exactly the regular files under
\* the input directory (children, or descendants when recursive) whose
\* extension is listed, each once; the reported total is their number; and
\* no other file is given a job.
C5_DiscoveryIsExactlyTheImageFiles ==
    (BatchMode /\ batch.i >= 1) =>
        /\ {batch.image_files[n] : n \in 1..Len(batch.image_files)} = ExpectedImageFiles
        /\ Len(batch.image_files) = Cardinality(ExpectedImageFiles)
        /\ \A k \in 1..Len(hist) : hist[k].input \in ExpectedImageFiles
        /\ report # NoValue => report.total = Cardinality(ExpectedImageFiles)

\* a batch over a.png and notes.txt (and nothing else listed) has reported total 1
C5_Witness ==
    /\ BatchMode /\ report # NoValue
    /\ FileNotes \in InitialFiles /\ FileA \in InitialFiles
    /\ report.total = 1
    /\ Len(hist) = 1

\* the output path C6 gives a discovered file
ExpectedOutput(f) ==
    (IF args.output_dir = NoPath THEN args.input_path \o <<DirComp("compressed")>>
     ELSE args.output_dir)
    \o (IF args.recursive THEN SubSeq(f, Len(args.input_path) + 1, Len(f))
        ELSE <<f[Len(f)]>>)

\* C6: every job of a batch is given outputDir joined with the file's
\* relative path (recursive) or bare name (not recursive), and a job that
\* reports success has left the file it wrote at exactly that path.
C6_SuccessfulOutputAtMirroredPath ==
    BatchMode =>
        \A k \in 1..Len(hist) :
            /\ hist[k].output = ExpectedOutput(hist[k].input)
            /\ (k = Len(hist) /\ pc = "batch_acc" /\ job.ret) =>
                  /\ ExpectedOutput(hist[k].input) \in DOMAIN fs
                  /\ fs[ExpectedOutput(hist[k].input)].writer = k

\* C7, as claimed: the resolved quality is in 1..100, at most the input
\* quality with preset fast and at least the input quality with preset quality.
C7_QualityBoundsAsClaimed ==
    compressor # NoValue =>
        /\ compressor.quality \in 1..100
        /\ args.preset = "fast" => compressor.quality <= args.quality
        /\ args.preset = "quality" => compressor.quality >= args.quality

\* C7, amended: the resolved quality is in 1..100; with preset fast it is
\* at most the input quality whenever that is 70 or more (below, the floor
\* of 70 applies); with preset quality it is at least the input quality
\* whenever that is 95 or less (above, the cap of 95 applies).
C7_QualityBounds ==
    compressor # NoValue =>
        /\ compressor.quality \in 1..100
        /\ (args.preset = "fast" /\ args.quality >= 70) => compressor.quality <= args.quality
        /\ (args.preset = "quality" /\ args.quality <= 95) => compressor.quality >= args.quality

\* preset quality at -q 95 resolves to the cap
C7_Witness ==
    /\ compressor # NoValue
    /\ args.preset = "quality" /\ args.quality = 95
    /\ compressor.quality = 95

\* C8: an explicit --no-optimize or --no-progressive wins over every preset.
C8_ExplicitFlagsWin ==
    compressor # NoValue =>
        /\ args.no_optimize => ~compressor.optimize
        /\ args.no_progressive => ~compressor.progressive

\* the quality C9 states for a preset: floored for fast, raised for quality
C9_ClaimedQuality ==
    IF args.preset = "fast"
    THEN (IF args.quality < 70 THEN 70 ELSE args.quality)
    ELSE IF args.preset = "quality"
    THEN (IF args.quality + 5 > 95 THEN 95 ELSE args.quality + 5)
    ELSE args.quality

\* the flags C9 states for a preset
C9_FlagsAsStated ==
    /\ args.preset = "fast" => ~compressor.optimize /\ ~compressor.progressive
    /\ args.preset = "quality" => compressor.optimize /\ compressor.progressive
    /\ args.preset = "balanced" =>
          /\ compressor.optimize = ~args.no_optimize
          /\ compressor.progressive = ~args.no_progressive

\* C9, as claimed: fast gives optimize and progressive false and the input
\* quality floored at 70; quality gives both true and min(95, input + 5);
\* balanced gives the input quality and the caller's flags.
C9_ResolutionAsClaimed ==
    compressor # NoValue =>
        /\ C9_FlagsAsStated
        /\ compressor.quality = C9_ClaimedQuality

\* C9, amended: as claimed, but preset fast yields the input quality
\* lowered by 10 and then floored at 70.
C9_Resolution ==
    compressor # NoValue =>
        /\ C9_FlagsAsStated
        /\ compressor.quality =
              IF args.preset = "fast"
              THEN (IF args.quality - 10 < 70 THEN 70 ELSE args.quality - 10)
              ELSE C9_ClaimedQuality

\* preset fast at -q 90 with both flags left on resolves to 80, off, off
C9_Witness ==
    /\ compressor # NoValue
    /\ args.preset = "fast" /\ args.quality = 90
    /\ ~args.no_optimize /\ ~args.no_progressive
    /\ compressor.quality = 80

\* the format names with an encoder
EncodedNames == {"jpg", "jpeg", "png", "webp"}

\* the running job is past the dispatch of compress_image
Dispatched == job # NoValue /\ (job.encoder # "none" \/ job.source = "probe")

\* C10, as claimed: the flag decides when given, else the extension, and the
\* header probe is used only when neither the flag nor the extension names
\* a format with an encoder; a job no source gives a format fails with no
\* encoder invoked.
C10_PrecedenceAsClaimed ==
    Dispatched =>
        /\ job.source = "probe" =>
              /\ ~(args.format # NoValue /\ args.format.text \in EncodedNames)
              /\ Suffix(job.input_path).text \notin EncodedNames
        /\ job.encoder = "none" => pc \in {"batch_acc", "single_ret", "exit"} /\ ~job.ret

\* the one string compress_image dispatches on: the flag when given, else
\* the extension
C10_Name ==
    IF args.format # NoValue THEN args.format.text ELSE Suffix(job.input_path).text

\* C10, amended: the format string is the flag when one is given and the
\* input extension otherwise; it alone picks the encoder when it names one,
\* and the header probe is used exactly when it names none, also when a flag
\* was given and the extension names a format; a job whose probe gives none
\* of JPEG/PNG/WEBP fails with no encoder invoked.
C10_Precedence ==
    Dispatched =>
        /\ job.source = "probe" <=> C10_Name \notin EncodedNames
        /\ job.source = "flag" => args.format # NoValue
        /\ job.source = "extension" => args.format = NoValue
        /\ job.source # "probe" =>
              /\ job.encoder = (CASE C10_Name = "png" -> "PNG"
                                  [] C10_Name = "webp" -> "WEBP"
                                  [] OTHER -> "JPEG")
              /\ job.target = job.output_path
        /\ job.encoder = "none" => pc \in {"batch_acc", "single_ret", "exit"} /\ ~job.ret

\* -f gif on a.png: the probe decides although the extension names PNG
C10_Witness ==
    /\ Dispatched
    /\ args.format = Str(FALSE, "gif", FALSE)
    /\ job.input_path = FileA
    /\ job.source = "probe"
    /\ job.encoder = "PNG"

-----------------------------------------------------------------------------
(* C11..C20.                                                               *)

\* C11: the exit status. In single file mode it is 0 when the job succeeded
\* and not 0 when it failed; a batch that found files exits 0 whatever its
\* jobs did, also when all of them failed.
C11_ExitStatus ==
    (pc = "exit" /\ hist # <<>>) =>
        IF BatchMode
        THEN exitCode = 0
        ELSE exitCode = 0 <=> hist[1].outcome = "success"

\* the running job's encoder has returned
Encoded == job # NoValue /\ job.encoder # "none" /\ pc \in {"ci_result", "batch_acc", "single_ret"}

\* C12: no failure of a metadata step fails a job: a job whose source was
\* opened and whose pixel encode and file write did not fail has an encoder
\* that returned True, and compress_image returns True for it.
C12_MetadataFailureNeverFailsJob ==
    (Encoded /\ job.fault \notin {"open", "encode"}) =>
        /\ job.success
        /\ pc \in {"batch_acc", "single_ret"} => job.ret

\* C13: the summary computes the overall ratio exactly when succeeded > 0;
\* with succeeded = 0 the run ends normally with the tally and no ratio; and
\* no batch run ends in a division by zero.
C13_RatioOnlyWithSuccesses ==
    BatchMode =>
        /\ error # "ZeroDivisionError"
        /\ report # NoValue =>
              /\ report.ratio <=> report.succeeded > 0
              /\ report.succeeded = 0 => pc = "exit" /\ exitCode = 0

\* a batch of two files, none compressed, has printed its tally without a ratio
C13_Witness ==
    /\ BatchMode /\ report # NoValue
    /\ report.total = 2 /\ report.succeeded = 0
    /\ ~report.ratio /\ exitCode = 0

\* the paths of a list of files
Paths(files) == {files[n] : n \in 1..Len(files)}

\* C14: a batch with --overwrite given a second time on the files the first
\* run left discovers the files the first run discovered, and, when every
\* job of both runs succeeded, ends with the set of files the first run left.
C14_SecondRunSameFiles ==
    (previous # NoValue /\ args.overwrite /\ batch.i >= 1) =>
        /\ Paths(batch.image_files) = Paths(previous.image_files)
        /\ (report # NoValue /\ report.succeeded = report.total
              /\ previous.succeeded = Len(previous.image_files)) =>
              DOMAIN fs = previous.files

\* C15: a batch that passed the directory validation and found at least one
\* file eventually prints its final tally, however many of its jobs fail.
C15_TallyEventually == (BatchMode /\ Discovered) ~> (report # NoValue)

\* C16: when compress_image reports success, the output path it reports
\* holds a file, this job wrote that file, and the compressed size it
\* reports is the size of that file; and after an encoder returned True the
\* size measurement does not fail, also when the header probe chose the format.
C16_ReportedOutputIsTheFileWritten ==
    /\ (pc \in {"batch_acc", "single_ret"} /\ job.ret) =>
          /\ job.output_path \in DOMAIN fs
          /\ fs[job.output_path].writer = Len(hist)
          /\ job.compressed_size = fs[job.output_path].size
    /\ (pc = "exit" /\ job # NoValue /\ job.success) => error # "FileNotFoundError"

\* C17: the JPEG encoder saves with the quality, optimize and progressive
\* values the compressor resolved, whatever keys the metadata mapping of the
\* source holds.
C17_JpegSavesWithResolvedParams ==
    (pc = "enc_meta" /\ job.encoder = "JPEG") =>
        /\ job.save_kwargs["quality"] = compressor.quality
        /\ job.save_kwargs["optimize"] = compressor.optimize
        /\ job.save_kwargs["progressive"] = compressor.progressive

\* the main thread is inside compress_jpeg, compress_png or compress_webp
InEncoder == pc \in {"enc_open", "enc_save", "enc_meta"}

\* C18: when an encoder has returned, with True or with False, the spinner
\* thread it started has been stopped and joined: outside the encoders no
\* spinner thread runs, and never more than one is alive.
C18_SpinnerStoppedOnReturn ==
    /\ spinners <= 1
    /\ ~InEncoder /\ pc # "enc_start" => spinners = 0

\* the source files of the run: the input file, or the discovered files
Sources == IF BatchMode THEN Paths(batch.image_files) ELSE {args.input_path}

\* C19: no job writes to the path of a source file, whatever the output
\* path or directory, recursive and overwrite: the input file (single file
\* mode) and the discovered files (batch mode) are never written by a job
\* of the run.
C19_NoSourceIsWritten ==
    \A p \in Sources \cap DOMAIN fs : fs[p].writer = 0

\* the jobs whose return value the loop has taken into the accumulators
Accounted == {k \in 1..Len(hist) : k < batch.i}

\* those of them that returned True
Succeeded == {k \in Accounted : hist[k].outcome = "success"}

\* the sum of size[k] over the jobs in S
RECURSIVE SumOver(_, _)
SumOver(S, size) ==
    IF S = {} THEN 0
    ELSE LET k == CHOOSE x \in S : TRUE
         IN size[k] + SumOver(S \ {k}, size)

\* C20: throughout a batch, succeeded <= jobs finished so far <= total, the
\* count is the number of jobs that succeeded so far, and the two byte totals
\* are the sums of the input and output sizes of exactly those jobs; a job
\* that failed or was skipped adds nothing.
C20_AccumulatorsTrackSuccesses ==
    (BatchMode /\ Discovered) =>
        /\ batch.success_count <= Cardinality(Accounted)
        /\ Cardinality(Accounted) <= Len(batch.image_files)
        /\ batch.success_count = Cardinality(Succeeded)
        /\ batch.total_original_size =
              SumOver(Succeeded, [k \in 1..Len(hist) |-> hist[k].original_size])
        /\ batch.total_compressed_size =
              SumOver(Succeeded, [k \in 1..Len(hist) |-> hist[k].compressed_size])

\* a batch of two files has ended with one job failed and the other counted
C20_Witness ==
    /\ BatchMode /\ report # NoValue
    /\ Len(hist) = 2
    /\ hist[1].outcome = "failed" /\ hist[2].outcome = "success"
    /\ batch.success_count = 1
    /\ batch.total_original_size = 2 /\ batch.total_compressed_size = 3

====
